---- MODULE Spec2Model ----
(***************************************************************************)
(* gmm_train: mlpackMain() of src/mlpack/methods/gmm/gmm_train_main.cpp,   *)
(* together with the GMM::Train / EMFit machinery it drives.               *)
(*                                                                         *)
(* mlpackMain() is modelled statement block by statement block; every      *)
(* command-line parameter is drawn at the statement that reads it          *)
(* (CLI::GetParam / CLI::HasParam) and kept in cli.  GMM, GMM::Train,      *)
(* EMFit::Estimate and the covariance constraint policies live in headers  *)
(* that gmm_train_main.cpp only includes; they are modelled from their     *)
(* documented contracts.                                                   *)
(*                                                                         *)
(* Abstractions.  A covariance is a symmetric integer matrix (a sequence   *)
(* of rows).  Means and mixture weights are not computed: a model carries  *)
(* the origin of its parameters (constructor, input model, or the trial    *)
(* that produced them).  A log-likelihood is an integer in 0..MaxLL.       *)
(***************************************************************************)
EXTENDS Integers, Sequences, FiniteSets, TLC

VARIABLES pc, cli, dataPoints, gmm, em, train, fit, likelihood, output,
          fatal, warnings, hist

vars == <<pc, cli, dataPoints, gmm, em, train, fit, likelihood, output,
          fatal, warnings, hist>>

-----------------------------------------------------------------------------
(* Bounds of the model. *)

\* Largest value of --trials.
MaxTrials == 2
\* Largest log-likelihood value (log-likelihoods are 0..MaxLL).
MaxLL == 1

\* Number of rows (dimensions) a data matrix or an input model may have.
RowsSet == {1, 2}
\* --gaussians, and the component count of an input model.
GaussiansSet == {0, 1, 2}
InputGaussiansSet == {1}
TrialsSet == 0 .. MaxTrials
\* --max_iterations; 0 is no cap.
MaxIterSet == {-1, 0, 1, 2}
ToleranceSet == {1}
SamplingsSet == {0, 1}
\* --percentage in hundredths: 0.0, 1.0 and 1.5.
PercentageSet == {0, 100, 150}
\* --noise: the variance given, or "absent".
NoiseSet == {1}
LLSet == 0 .. MaxLL

-----------------------------------------------------------------------------
(* Matrices. *)

Identity(n) == [i \in 1 .. n |-> [j \in 1 .. n |-> IF i = j THEN 1 ELSE 0]]

Ones(n) == [i \in 1 .. n |-> [j \in 1 .. n |-> 1]]

MatAdd(a, b) == [i \in 1 .. Len(a) |-> [j \in 1 .. Len(a) |-> a[i][j] + b[i][j]]]

MatSub(a, b) == [i \in 1 .. Len(a) |-> [j \in 1 .. Len(a) |-> a[i][j] - b[i][j]]]

\* m without row 1 and column c.
Minor(m, c) ==
  [i \in 1 .. Len(m) - 1 |->
     [j \in 1 .. Len(m) - 1 |-> m[i + 1][IF j < c THEN j ELSE j + 1]]]

RECURSIVE Det(_)
RECURSIVE DetSum(_, _)
\* Laplace expansion along the first row, columns c .. Len(m).
DetSum(m, c) ==
  IF c > Len(m) THEN 0
  ELSE (IF c % 2 = 1 THEN 1 ELSE -1) * m[1][c] * Det(Minor(m, c)) + DetSum(m, c + 1)

Det(m) == IF Len(m) = 1 THEN m[1][1] ELSE DetSum(m, 1)

Leading(m, k) == [i \in 1 .. k |-> [j \in 1 .. k |-> m[i][j]]]

\* Sylvester's criterion: all leading principal minors are positive.
IsPositiveDefinite(m) == \A k \in 1 .. Len(m) : Det(Leading(m, k)) > 0

IsDiagonal(m) == \A i, j \in 1 .. Len(m) : i # j => m[i][j] = 0

\* The covariances an estimate (k-means cluster covariance, M-step update) may
\* produce in n dimensions: well conditioned; singular, with fully correlated
\* dimensions; and with zero variances (and, by rounding, indefinite).
RawCovSet(n) == {Identity(n), Ones(n), MatSub(Ones(n), Identity(n))}

\* The covariance estimates of a model of k components in n dimensions: any
\* one component may be ill conditioned.
EstimateSet(k, n) ==
  {[i \in 1 .. k |-> IF i = bad THEN c ELSE Identity(n)] :
     bad \in 1 .. k, c \in RawCovSet(n)}

-----------------------------------------------------------------------------
(* Covariance constraint policies (no_constraint.hpp, diagonal_constraint.hpp *)
(* and the default positive-definite policy of EMFit).                        *)

\* Number of corrections the positive-definite corrector attempts.
MaxCorrections == 1

\* The value a correction yields when the matrix could not be repaired.
Unrepairable == << >>

NoConstraint(covariance) == covariance

DiagonalConstraint(covariance) ==
  [i \in 1 .. Len(covariance) |->
     [j \in 1 .. Len(covariance) |-> IF i = j THEN covariance[i][j] ELSE 0]]

RECURSIVE Correct(_, _)
\* Add the identity until the matrix is positive definite, at most `attempts`
\* times.
Correct(covariance, attempts) ==
  IF IsPositiveDefinite(covariance) THEN covariance
  ELSE IF attempts = 0 THEN Unrepairable
  ELSE Correct(MatAdd(covariance, Identity(Len(covariance))), attempts - 1)

PositiveDefiniteConstraint(covariance) == Correct(covariance, MaxCorrections)

ApplyConstraint(policy, covariance) ==
  CASE policy = "DiagonalConstraint" -> DiagonalConstraint(covariance)
    [] policy = "PositiveDefiniteConstraint" -> PositiveDefiniteConstraint(covariance)
    [] policy = "NoConstraint" -> NoConstraint(covariance)

-----------------------------------------------------------------------------
(* The GMM container. *)

Origin(kind, trial) == [kind |-> kind, trial |-> trial]

\* GMM(gaussians, dimensionality): every component is a standard Gaussian.
NewGMM(gaussians, dimensionality) ==
  [gaussians |-> gaussians, dimensionality |-> dimensionality,
   covs |-> [k \in 1 .. gaussians |-> Identity(dimensionality)],
   origin |-> Origin("default", 0)]

\* The models --input_model may hold: valid (positive definite) models whose
\* covariances are full, of any dimensionality.
InputModelSet ==
  {[gaussians |-> g, dimensionality |-> d,
    covs |-> [k \in 1 .. g |-> MatAdd(Ones(d), Identity(d))],
    origin |-> Origin("input", 0)] : g \in InputGaussiansSet, d \in RowsSet}

\* The placeholder of an object that has not been constructed.
NoGMM == NewGMM(0, 0)

-----------------------------------------------------------------------------
(* The command line. *)

HasRead(param) == param \in DOMAIN cli

Read(param, value) == cli' = cli @@ (param :> value)

Absent == [has |-> FALSE, value |-> 0]

Given(value) == [has |-> TRUE, value |-> value]

\* The largest size_t; stands for 2^64 - 1, which is beyond the integers TLC
\* represents.
SizeMax == 2147483647

\* (size_t) n
SizeT(n) == IF n < 0 THEN SizeMax + (n + 1) ELSE n

\* -DBL_MAX
MinusDblMax == -1

-----------------------------------------------------------------------------
(* The state after start-up. *)

NoFit == [state |-> "Idle", iteration |-> 0, l |-> MinusDblMax, lOld |-> MinusDblMax,
          covs |-> << >>, start |-> "none"]

NoTrain == [trials |-> 0, useExistingModel |-> FALSE, trial |-> 0,
            bestLikelihood |-> MinusDblMax, orig |-> NoGMM]

NoEM == [maxIterations |-> 0, tolerance |-> 0, clusterer |-> "none",
         constraint |-> "none"]

Init ==
  /\ pc = "start"
  /\ cli = << >>
  /\ dataPoints = [n_rows |-> 0, noise |-> 0]
  /\ gmm = NoGMM
  /\ em = NoEM
  /\ train = NoTrain
  /\ fit = NoFit
  /\ likelihood = MinusDblMax
  /\ output = [written |-> FALSE, model |-> NoGMM]
  /\ fatal = "none"
  /\ warnings = {}
  \* hist records what has run: calls of Train, invocations of the
  \* Initializer, whether an EM step has run (0 or 1), the kinds of starting
  \* parameters the fits began from, the log-likelihood of each finished
  \* trial, and the constraint policies M-steps have applied.
  /\ hist = [trainCalls |-> 0, initCalls |-> 0, emSteps |-> 0, startOrigins |-> {},
             trialLL |-> << >>, applied |-> {}]

\* Log::Fatal << ... << std::endl: the run ends with the error.
Fatal(kind) == pc' = "error" /\ fatal' = kind

-----------------------------------------------------------------------------
(* mlpackMain(). *)

InvalidGaussians(gaussians) == gaussians <= 0

\* Lines 127-137: seed the generator, read and check --gaussians.
ReadGaussians ==
  /\ pc = "start"
  /\ \E g \in GaussiansSet :
       /\ Read("gaussians", g)
       /\ IF InvalidGaussians(g)
            THEN Fatal("gaussians")
            ELSE pc' = "flags" /\ UNCHANGED fatal
  /\ UNCHANGED <<dataPoints, gmm, em, train, fit, likelihood, output, warnings, hist>>

\* Lines 139-148: the warning about --no_force_positive, then the data matrix
\* is taken.  (Lines 144-146 only log whether --output_model was given; the
\* parameter is drawn where it is acted on, in Report.)
CheckFlagsAndLoad ==
  /\ pc = "flags"
  /\ \E d \in BOOLEAN, n \in BOOLEAN, rows \in RowsSet :
       /\ cli' = cli @@ ("diagonal_covariance" :> d) @@ ("no_force_positive" :> n)
       /\ warnings' = IF d /\ n THEN {"no_force_positive ignored"} ELSE {}
       /\ dataPoints' = [n_rows |-> rows, noise |-> 0]
  /\ pc' = "noise"
  /\ UNCHANGED <<gmm, em, train, fit, likelihood, output, fatal, hist>>

\* Lines 150-159: dataPoints += noise * randn(...).
AddNoise ==
  /\ pc = "noise"
  /\ \E n \in {Absent} \cup {Given(v) : v \in NoiseSet} :
       /\ Read("noise", n)
       /\ dataPoints' = IF n.has
                          THEN [dataPoints EXCEPT !.noise = @ + n.value]
                          ELSE dataPoints
  /\ pc' = "init_gmm"
  /\ UNCHANGED <<gmm, em, train, fit, likelihood, output, fatal, warnings, hist>>

\* Variant: only a model of more dimensions than the data is rejected.
DimensionMismatchOneSided(model, data) == model.dimensionality > data.n_rows

DimensionMismatch(model, data) == model.dimensionality # data.n_rows

\* Lines 161-173: construct the GMM, or take the input model and check it.
InitGMM ==
  /\ pc = "init_gmm"
  /\ \E m \in {[has |-> FALSE, value |-> NoGMM]}
                 \cup {Given(im) : im \in InputModelSet} :
       /\ Read("input_model", m)
       /\ gmm' = IF m.has THEN m.value
                          ELSE NewGMM(SizeT(cli.gaussians), dataPoints.n_rows)
       /\ IF m.has /\ DimensionMismatch(m.value, dataPoints)
            THEN Fatal("dimensionality")
            ELSE pc' = "fitter" /\ UNCHANGED fatal
  /\ UNCHANGED <<dataPoints, em, train, fit, likelihood, output, warnings, hist>>

InvalidSamplings(samplings) == samplings <= 0

\* Variant: the upper limit of the percentage is not checked.
InvalidPercentageNoUpperLimit(percentage) == percentage <= 0

InvalidPercentage(percentage) == percentage <= 0 \/ percentage > 100

\* Variant: the two non-diagonal instantiations are exchanged.
SelectConstraintExchanged(diagonalCovariance, forcePositive) ==
  IF diagonalCovariance THEN "DiagonalConstraint"
  ELSE IF forcePositive THEN "NoConstraint"
  ELSE "PositiveDefiniteConstraint"

\* Variant: forcePositive is tested before diagonalCovariance.
SelectConstraintForceFirst(diagonalCovariance, forcePositive) ==
  IF forcePositive THEN "PositiveDefiniteConstraint"
  ELSE IF diagonalCovariance THEN "DiagonalConstraint"
  ELSE "NoConstraint"

\* Lines 205, 214, 223 (and 237, 246, 255): the EMFit instantiation chosen.
SelectConstraint(diagonalCovariance, forcePositive) ==
  IF diagonalCovariance THEN "DiagonalConstraint"
  ELSE IF forcePositive THEN "PositiveDefiniteConstraint"
  ELSE "NoConstraint"

\* The third argument of every gmm.Train(...) call.
UseExistingModel == FALSE

\* Variant: the fitter is built without the cap.
MaxIterationsDropped(max_iterations) == 0

\* Line 176: the iteration cap handed to EMFit.
MaxIterations(max_iterations) == SizeT(max_iterations)

\* Lines 175-264 up to the call: gather the EM parameters, check the
\* refined-start parameters, build the fitter and call gmm.Train.
BuildFitterAndTrain ==
  /\ pc = "fitter"
  /\ \E mi \in MaxIterSet, tol \in ToleranceSet, refined \in BOOLEAN :
       LET maxIterations == MaxIterations(mi)
           forcePositive == ~cli.no_force_positive
           diagonalCovariance == cli.diagonal_covariance
       IN
       IF refined
         THEN \E samplings \in SamplingsSet, percentage \in PercentageSet :
                /\ cli' = cli @@ ("max_iterations" :> mi) @@ ("tolerance" :> tol)
                              @@ ("refined_start" :> TRUE)
                              @@ ("samplings" :> samplings)
                              @@ ("percentage" :> percentage)
                /\ IF InvalidSamplings(samplings)
                     THEN /\ Fatal("samplings")
                          /\ UNCHANGED <<em, train, hist>>
                     ELSE IF InvalidPercentage(percentage)
                     THEN /\ Fatal("percentage")
                          /\ UNCHANGED <<em, train, hist>>
                     ELSE \E trials \in TrialsSet :
                          /\ em' = [maxIterations |-> maxIterations, tolerance |-> tol,
                                    clusterer |-> "RefinedStart",
                                    constraint |->
                                      SelectConstraint(diagonalCovariance, forcePositive)]
                          /\ train' = [NoTrain EXCEPT !.trials = trials,
                                         !.useExistingModel = UseExistingModel]
                          /\ hist' = [hist EXCEPT !.trainCalls = @ + 1]
                          /\ pc' = "train"
                          /\ UNCHANGED fatal
         ELSE \E trials \in TrialsSet :
                /\ cli' = cli @@ ("max_iterations" :> mi) @@ ("tolerance" :> tol)
                              @@ ("refined_start" :> FALSE)
                /\ em' = [maxIterations |-> maxIterations, tolerance |-> tol,
                          clusterer |-> "KMeans",
                          constraint |->
                            SelectConstraint(diagonalCovariance, forcePositive)]
                /\ train' = [NoTrain EXCEPT !.trials = trials,
                               !.useExistingModel = UseExistingModel]
                /\ hist' = [hist EXCEPT !.trainCalls = @ + 1]
                /\ pc' = "train"
                /\ UNCHANGED fatal
  /\ UNCHANGED <<dataPoints, gmm, fit, likelihood, output, warnings>>

-----------------------------------------------------------------------------
(* GMM::Train(observations, trials, useExistingModel, fitter). *)

\* Zero trials: the model is returned as it is.  Otherwise the first trial
\* begins.  With useExistingModel the starting parameters are saved, so that
\* every trial starts from them.
TrainBegin ==
  /\ pc = "train"
  /\ IF train.trials = 0
       THEN /\ likelihood' = MinusDblMax
            /\ pc' = "report"
            /\ UNCHANGED train
       ELSE /\ train' = [train EXCEPT !.trial = 1,
                           !.orig = IF train.useExistingModel THEN gmm ELSE NoGMM]
            /\ pc' = "trial"
            /\ UNCHANGED likelihood
  /\ UNCHANGED <<cli, dataPoints, gmm, em, fit, output, fatal, warnings, hist>>

\* The start of one trial: the Initializer (k-means, plain or refined start)
\* makes the initial model from the data, unless the existing model is used.
TrialInit ==
  /\ pc = "trial"
  /\ \E l0 \in LLSet :
       IF train.useExistingModel
         THEN /\ fit' = [state |-> "Initialized", iteration |-> 0, l |-> l0,
                         lOld |-> MinusDblMax, covs |-> train.orig.covs,
                         start |-> train.orig.origin.kind]
              /\ hist' = [hist EXCEPT !.startOrigins = @ \cup {train.orig.origin.kind}]
         ELSE \E initial \in EstimateSet(gmm.gaussians, dataPoints.n_rows) :
              /\ fit' = [state |-> "Initialized", iteration |-> 0, l |-> l0,
                         lOld |-> MinusDblMax, covs |-> initial,
                         start |-> "kmeans"]
              /\ hist' = [hist EXCEPT !.initCalls = @ + 1,
                            !.startOrigins = @ \cup {"kmeans"}]
  /\ pc' = "em"
  /\ UNCHANGED <<cli, dataPoints, gmm, em, train, likelihood, output, fatal, warnings>>

\* EMFit::Estimate enters its loop.
EMStart ==
  /\ pc = "em"
  /\ fit.state = "Initialized"
  /\ fit' = [fit EXCEPT !.state = "Iterating"]
  /\ UNCHANGED <<pc, cli, dataPoints, gmm, em, train, likelihood, output, fatal,
                 warnings, hist>>

\* The loop ends when the improvement of the log-likelihood is below the
\* tolerance.
Converged(l, lOld, tolerance) == l - lOld < tolerance

\* The loop ends at the iteration cap; 0 is no cap.
CapReached(iteration, maxIterations) ==
  maxIterations # 0 /\ iteration = maxIterations

\* One EM iteration: E-step, M-step (each covariance re-estimated, then the
\* constraint policy applied to it), then the convergence test.  A covariance
\* the positive-definite policy cannot repair fails the fit, and the run.
EMStep ==
  /\ pc = "em"
  /\ fit.state = "Iterating"
  /\ \E raw \in EstimateSet(gmm.gaussians, dataPoints.n_rows),
        l \in fit.l .. MaxLL :
       LET constrained == [k \in 1 .. gmm.gaussians |->
                             ApplyConstraint(em.constraint, raw[k])]
           iteration == fit.iteration + 1
       IN
       /\ hist' = [hist EXCEPT !.emSteps = 1, !.applied = @ \cup {em.constraint}]
       /\ IF \E k \in 1 .. gmm.gaussians : constrained[k] = Unrepairable
            THEN /\ fit' = [fit EXCEPT !.state = "Failed", !.iteration = iteration]
                 /\ pc' = "crashed"
                 /\ fatal' = "FatalNumericalError"
            ELSE /\ fit' = [fit EXCEPT
                              !.covs = constrained,
                              !.lOld = fit.l,
                              !.l = l,
                              !.iteration = iteration,
                              !.state =
                                IF Converged(l, fit.l, em.tolerance) THEN "Converged"
                                ELSE IF CapReached(iteration, em.maxIterations)
                                  THEN "MaxIterationsReached"
                                ELSE "Iterating"]
                 /\ UNCHANGED <<pc, fatal>>
  /\ UNCHANGED <<cli, dataPoints, gmm, em, train, likelihood, output, warnings>>

\* Variant: a tie replaces the best.
BetterOrEqual(newLikelihood, bestLikelihood) == newLikelihood >= bestLikelihood

\* A later trial replaces the best only when it is strictly better.
Better(newLikelihood, bestLikelihood) == newLikelihood > bestLikelihood

\* The end of one trial: its result is compared with the best so far; then
\* the next trial begins, or Train returns the best log-likelihood.
TrialEnd ==
  /\ pc = "em"
  /\ fit.state \in {"Converged", "MaxIterationsReached"}
  /\ LET keep == train.trial = 1 \/ Better(fit.l, train.bestLikelihood)
         best == IF keep THEN fit.l ELSE train.bestLikelihood
     IN
     /\ gmm' = IF keep THEN [gmm EXCEPT !.covs = fit.covs,
                                         !.origin = Origin("trial", train.trial)]
                       ELSE gmm
     /\ hist' = [hist EXCEPT !.trialLL = Append(@, fit.l)]
     /\ IF train.trial < train.trials
          THEN /\ train' = [train EXCEPT !.bestLikelihood = best, !.trial = @ + 1]
               /\ pc' = "trial"
               /\ UNCHANGED likelihood
          ELSE /\ train' = [train EXCEPT !.bestLikelihood = best]
               /\ likelihood' = best
               /\ pc' = "report"
  /\ fit' = NoFit
  /\ UNCHANGED <<cli, dataPoints, em, output, fatal, warnings>>

\* Lines 266-269: report the log-likelihood and hand over the model.
Report ==
  /\ pc = "report"
  /\ \E o \in BOOLEAN :
       /\ Read("output_model", o)
       /\ output' = IF o THEN [written |-> TRUE, model |-> gmm] ELSE output
  /\ pc' = "done"
  /\ UNCHANGED <<dataPoints, gmm, em, train, fit, likelihood, fatal, warnings, hist>>

Next ==
  \/ ReadGaussians
  \/ CheckFlagsAndLoad
  \/ AddNoise
  \/ InitGMM
  \/ BuildFitterAndTrain
  \/ TrainBegin
  \/ TrialInit
  \/ EMStart
  \/ EMStep
  \/ TrialEnd
  \/ Report

Spec == Init /\ [][Next]_vars

-----------------------------------------------------------------------------
(* Properties. *)

\* Train has returned to mlpackMain().
Returned == pc \in {"report", "done"}

\* Train has returned after running at least one trial.
Trained == Returned /\ Len(hist.trialLL) >= 1

InputModelGiven == HasRead("input_model") /\ cli.input_model.has

InputModelMatches ==
  InputModelGiven /\ cli.input_model.value.dimensionality = dataPoints.n_rows

SeqMax(seq) == CHOOSE m \in {seq[i] : i \in DOMAIN seq} : \A i \in DOMAIN seq : seq[i] <= m

FirstIndexOf(seq, m) == CHOOSE i \in DOMAIN seq : seq[i] = m /\ \A j \in 1 .. i - 1 : seq[j] # m

\* C1 (as claimed): when an input model of the data's dimensionality is given,
\* the Initializer is never invoked and every EM fit starts from the
\* parameters of the input model.
C1_InputModelIsStartingPoint ==
  InputModelMatches => hist.initCalls = 0 /\ hist.startOrigins \subseteq {"input"}

\* C2: once trials have ended, the best log-likelihood kept by Train is the
\* maximum of the log-likelihoods of the trials so far, and the model kept is
\* the one of the first trial that reached it; Train returns that
\* log-likelihood after exactly `trials` trials.
C2_BestOfTrials ==
  /\ Len(hist.trialLL) >= 1 /\ pc # "crashed" =>
       /\ train.bestLikelihood = SeqMax(hist.trialLL)
       /\ gmm.origin = Origin("trial", FirstIndexOf(hist.trialLL, SeqMax(hist.trialLL)))
  /\ Returned /\ train.trials >= 1 =>
       /\ Len(hist.trialLL) = train.trials
       /\ likelihood = SeqMax(hist.trialLL)

\* C2 witness: two trials tied for the maximum and the first one was kept.
C2_Witness ==
  /\ pc = "done"
  /\ Len(hist.trialLL) = 2
  /\ hist.trialLL[1] = hist.trialLL[2]
  /\ gmm.origin = Origin("trial", 1)

RefinedStartRejected == fatal \in {"samplings", "percentage"}

NoTrainingWork ==
  /\ hist.trainCalls = 0
  /\ hist.initCalls = 0
  /\ hist.emSteps = 0
  /\ train = NoTrain
  /\ fit = NoFit

\* C3 (as claimed): when the refined-start parameters are rejected, the data
\* set has not been modified and no k-means step, EM step or trial has run.
C3_NoComputationBeforeError ==
  RefinedStartRejected => dataPoints.noise = 0 /\ NoTrainingWork

\* C3 (amended): with --refined_start, samplings < 1 or a percentage outside
\* (0, 1] ends the run with an error, and then no k-means step, EM step or
\* trial has run and Train was not called.
C3_NoTrainingBeforeError ==
  /\ HasRead("samplings") /\ (cli.samplings < 1 \/ cli.percentage <= 0 \/ cli.percentage > 100)
       => pc = "error" /\ RefinedStartRejected
  /\ RefinedStartRejected => NoTrainingWork

\* C3 witness: a percentage of 1.5 was rejected after noise had been added.
C3_Witness ==
  /\ pc = "error"
  /\ fatal = "percentage"
  /\ cli.percentage = 150
  /\ dataPoints.noise > 0

AllPositiveDefinite(model) ==
  \A k \in 1 .. model.gaussians : IsPositiveDefinite(model.covs[k])

AllDiagonal(model) == \A k \in 1 .. model.gaussians : IsDiagonal(model.covs[k])

ForcingEnabled == HasRead("no_force_positive") /\ ~cli.no_force_positive

DiagonalSelected == HasRead("diagonal_covariance") /\ cli.diagonal_covariance

C5_ComponentCount ==
  Trained =>
    /\ gmm.gaussians = cli.gaussians
    /\ Len(gmm.covs) = cli.gaussians
    /\ gmm.dimensionality = dataPoints.n_rows

\* C6 (as claimed): Train is only called with trials >= 1, and then runs
\* exactly `trials` Initializer -> EMFitter pipelines.
C6_TrialsAtLeastOne ==
  /\ hist.trainCalls > 0 => train.trials >= 1
  /\ Returned => hist.initCalls = train.trials

\* C7: with gaussians <= 0, or an input model whose dimensionality differs
\* from the data's, the run has ended with an error; Train was not called,
\* no trial ran and no output model is written.
C7_ConfigurationErrorAborts ==
  \/ HasRead("gaussians") /\ cli.gaussians <= 0
  \/ InputModelGiven /\ cli.input_model.value.dimensionality # dataPoints.n_rows
  => /\ pc = "error"
     /\ fatal \in {"gaussians", "dimensionality"}
     /\ NoTrainingWork
     /\ ~output.written

\* C7 witness: an input model of another dimensionality was rejected.
C7_Witness ==
  /\ pc = "error"
  /\ fatal = "dimensionality"
  /\ InputModelGiven
  /\ gmm = cli.input_model.value

Terminal == {"Converged", "MaxIterationsReached", "Failed"}

FitTransition ==
  \/ fit' = fit
  \/ fit.state = "Idle" /\ fit'.state = "Initialized"
  \/ fit.state = "Initialized" /\ fit'.state = "Iterating"
  \/ fit.state = "Iterating" /\ fit'.state \in {"Iterating"} \cup Terminal
       /\ fit'.iteration = fit.iteration + 1
  \/ /\ fit.state \in {"Converged", "MaxIterationsReached"}
     /\ fit' = NoFit
     /\ hist'.trialLL = Append(hist.trialLL, fit.l)
     /\ gmm'.origin.trial = train.trial => gmm'.covs = fit.covs

FitState ==
  /\ fit.state \in {"Idle", "Initialized", "Iterating"} \cup Terminal
  /\ fit.state # "Idle" /\ cli.max_iterations > 0 => fit.iteration <= cli.max_iterations
  /\ fit.state # "Idle" /\ cli.max_iterations = 0 => fit.state # "MaxIterationsReached"
  /\ fit.state = "MaxIterationsReached" =>
       /\ fit.iteration = cli.max_iterations
       /\ fit.l - fit.lOld >= cli.tolerance
  /\ fit.state = "Converged" => fit.iteration >= 1 /\ fit.l - fit.lOld < cli.tolerance
  /\ fit.state = "Iterating" /\ fit.iteration >= 1 =>
       /\ fit.l - fit.lOld >= cli.tolerance
       /\ cli.max_iterations > 0 => fit.iteration < cli.max_iterations
  /\ fit.state = "Failed" <=> pc = "crashed"

\* C8: an EM fit goes Initialized -> Iterating -> one of Converged,
\* MaxIterationsReached, Failed and leaves a terminal state only when the trial
\* ends; with max_iterations > 0 it runs at most max_iterations iterations,
\* with max_iterations = 0 it never ends in MaxIterationsReached and ends
\* only when the improvement is below the tolerance (or it fails); Converged
\* and MaxIterationsReached hand the current model and log-likelihood to Train.
C8_FitStateMachine == [](FitState) /\ [][FitTransition]_vars

\* C8 witness: a fit stopped at the iteration cap.
C8_Witness ==
  /\ fit.state = "MaxIterationsReached"
  /\ cli.max_iterations = 1
  /\ fit.iteration = 1

\* C9 (as claimed): with --diagonal_covariance, every covariance of the
\* returned model is diagonal.
C9_DiagonalCovariances ==
  Returned /\ DiagonalSelected => AllDiagonal(gmm)

====
